---- MODULE Spec2Model ----
(***************************************************************************)
(* Model of scripts/strava_cache.py: the polyline decoder, the slug        *)
(* normaliser and the route caching loop of main().                        *)
(*                                                                         *)
(* Text is modelled as a sequence of code points (Python str), so that     *)
(* indexing, ord(), comparison and regular-expression character classes    *)
(* are computed on characters.  Python's None is the sentinel None.        *)
(* A coordinate lat / 1e5 is represented by its numerator lat over the     *)
(* fixed denominator 100000, i.e. an integer count of 1e-5 degrees.        *)
(***************************************************************************)
EXTENDS Integers, Sequences, FiniteSets, TLC

VARIABLES
    call,        \* the function under test and its arguments (pure-function specifications)
    ret,         \* its outcome: Pending until the call returns or raises
    pc,          \* position of main(): line about to execute, or "done" / "aborted"
    ROUTES_DIR,  \* module global ROUTES_DIR (line 14), fixed at import
    routes,      \* main's local `routes`: the fetched list of route records
    pos,         \* number of elements of `routes` the for loop has consumed
    index,       \* main's local `index`: [count, routes]
    files,       \* paths of the route files written so far, in order
    manifest,    \* contents written to INDEX_PATH, in order of writing
    out,         \* lines printed to standard output, as <<kind, route_id>>
    athlete_id,  \* main's local `athlete_id`, 0 before line 143
    cur,         \* locals of the most recent loop iteration (r, detail, mp, outcome)
    error        \* the exception that escaped main(), or "none"

vars == <<call, ret, pc, ROUTES_DIR, routes, pos, index, files, manifest, out,
         athlete_id, cur, error>>

None == << -1 >>

(***************************************************************************)
(* Python integer operators used by decode_polyline.                       *)
(***************************************************************************)
RECURSIVE Pow2(_)
Pow2(n) == IF n = 0 THEN 1 ELSE 2 * Pow2(n - 1)

\* x << n
ShiftLeft(x, n) == x * Pow2(n)

\* x >> n, for x >= 0
ShiftRight(x, n) == x \div Pow2(n)

\* x & 0x1f: Python's & on a two's-complement integer of unbounded width
And1f(x) == x % 32

\* a | b, for a, b >= 0
RECURSIVE BitOr(_, _)
BitOr(a, b) ==
    IF a = 0 THEN b
    ELSE IF b = 0 THEN a
    ELSE (IF a % 2 = 1 \/ b % 2 = 1 THEN 1 ELSE 0) + 2 * BitOr(a \div 2, b \div 2)

\* ~x
Invert(x) == -x - 1

(***************************************************************************)
(* decode_polyline (lines 26-60).                                          *)
(***************************************************************************)
IndexError == [raised |-> TRUE, exc |-> "IndexError"]

\* ReadChunks with the loop bounded by the length of the string: the read
\* stops silently at the end instead of raising.
RECURSIVE ReadChunksBounded(_, _, _, _)
ReadChunksBounded(polyline_str, idx, result, shift) ==
    IF idx >= Len(polyline_str)
    THEN [raised |-> FALSE, index |-> idx, result |-> result]
    ELSE LET b  == polyline_str[idx + 1] - 63
             r2 == BitOr(result, ShiftLeft(And1f(b), shift))
         IN  IF b < 32
             THEN [raised |-> FALSE, index |-> idx + 1, result |-> r2]
             ELSE ReadChunksBounded(polyline_str, idx + 1, r2, shift + 5)

\* The inner `while True:` loop: reads chunks from position idx (0-based)
\* until one has no continuation flag.  polyline_str[idx] raises IndexError
\* when idx >= len(polyline_str).
RECURSIVE ReadChunks(_, _, _, _)
ReadChunks(polyline_str, idx, result, shift) ==
    IF idx >= Len(polyline_str)
    THEN IndexError
    ELSE LET b  == polyline_str[idx + 1] - 63
             r2 == BitOr(result, ShiftLeft(And1f(b), shift))
         IN  IF b < 32
             THEN [raised |-> FALSE, index |-> idx + 1, result |-> r2]
             ELSE ReadChunks(polyline_str, idx + 1, r2, shift + 5)

\* SignedDelta negating instead of complementing
SignedDeltaNegate(result) ==
    IF result % 2 = 1 THEN -ShiftRight(result, 1) ELSE ShiftRight(result, 1)

\* dlat = ~(result >> 1) if (result & 1) else (result >> 1)
SignedDelta(result) ==
    IF result % 2 = 1 THEN Invert(ShiftRight(result, 1)) ELSE ShiftRight(result, 1)

\* The outer `while index < length:` loop.
RECURSIVE DecodeLoop(_, _, _, _, _)
DecodeLoop(polyline_str, idx, lat, lng, coords) ==
    IF ~(idx < Len(polyline_str))
    THEN [raised |-> FALSE, coords |-> coords]
    ELSE LET a == ReadChunks(polyline_str, idx, 0, 0)
         IN  IF a.raised THEN IndexError
             ELSE LET lat2 == lat + SignedDelta(a.result)
                      b    == ReadChunks(polyline_str, a.index, 0, 0)
                  IN  IF b.raised THEN IndexError
                      ELSE LET lng2 == lng + SignedDelta(b.result)
                           IN  DecodeLoop(polyline_str, b.index, lat2, lng2,
                                          Append(coords, <<lat2, lng2>>))

decode_polyline(polyline_str) == DecodeLoop(polyline_str, 0, 0, 0, <<>>)

(***************************************************************************)
(* slugify (lines 19-24).                                                  *)
(***************************************************************************)
\* unicodedata.normalize("NFKD", c) for one code point: the letters with an
\* acute accent decompose into the base letter and U+0301; ASCII is unchanged.
Nfkd(c) ==
    CASE c = 233 -> <<101, 769>>      \* e-acute
      [] c = 201 -> <<69, 769>>       \* E-acute
      [] OTHER   -> <<c>>

RECURSIVE NormalizeNFKD(_)
NormalizeNFKD(value) ==
    IF value = <<>> THEN <<>> ELSE Nfkd(Head(value)) \o NormalizeNFKD(Tail(value))

\* .encode("ascii", "ignore").decode("ascii")
IsAscii(c) == c < 128
EncodeAsciiIgnore(value) == SelectSeq(value, IsAscii)

\* \w, \s and - on ASCII text
IsWord(c)  == c \in 48..57 \/ c \in 65..90 \/ c \in 97..122 \/ c = 95
IsSpace(c) == c \in 9..13 \/ c \in 28..32
IsKept(c)  == IsWord(c) \/ IsSpace(c) \/ c = 45
IsSep(c)   == c = 45 \/ IsSpace(c)

\* RemoveOthers substituting a hyphen for each removed character
ReplaceOthers(value) ==
    [k \in 1..Len(value) |-> IF IsKept(value[k]) THEN value[k] ELSE 45]

\* re.sub(r"[^\w\s-]", "", value)
RemoveOthers(value) == SelectSeq(value, IsKept)

\* str.strip()
RECURSIVE LStrip(_)
LStrip(value) ==
    IF value # <<>> /\ IsSpace(Head(value)) THEN LStrip(Tail(value)) ELSE value

RECURSIVE RStrip(_)
RStrip(value) ==
    IF value # <<>> /\ IsSpace(value[Len(value)])
    THEN RStrip(SubSeq(value, 1, Len(value) - 1))
    ELSE value

Strip(value) == RStrip(LStrip(value))

\* str.lower() on ASCII text
Lower(value) == [k \in 1..Len(value) |->
                    IF value[k] \in 65..90 THEN value[k] + 32 ELSE value[k]]

\* re.sub(r"[-\s]+", "-", value)
RECURSIVE DropSeps(_)
DropSeps(value) ==
    IF value # <<>> /\ IsSep(Head(value)) THEN DropSeps(Tail(value)) ELSE value

RECURSIVE CollapseSeps(_)
CollapseSeps(value) ==
    IF value = <<>> THEN <<>>
    ELSE IF IsSep(Head(value))
         THEN <<45>> \o CollapseSeps(DropSeps(Tail(value)))
         ELSE <<Head(value)>> \o CollapseSeps(Tail(value))

SlugMax == 60

\* value[:60]
Truncate(value) == SubSeq(value, 1, IF Len(value) < SlugMax THEN Len(value) ELSE SlugMax)

RouteWord == <<114, 111, 117, 116, 101>>     \* "route"

slugify(value) ==
    LET v1 == EncodeAsciiIgnore(NormalizeNFKD(value))
        v2 == Lower(Strip(RemoveOthers(v1)))
        v3 == CollapseSeps(v2)
    IN  IF Truncate(v3) # <<>> THEN Truncate(v3) ELSE RouteWord

(***************************************************************************)
(* Python values used by main().                                           *)
(***************************************************************************)
\* truth value of a str-or-None
Truthy(v) == v # None /\ v # <<>>

\* a or b
Or(a, b) == IF Truthy(a) THEN a ELSE b

\* str(n) for n >= 0
RECURSIVE Str(_)
Str(n) == IF n < 10 THEN <<48 + n>> ELSE Str(n \div 10) \o <<48 + (n % 10)>>

\* a < b on str: lexicographic by code point
RECURSIVE StrLess(_, _)
StrLess(a, b) ==
    IF b = <<>> THEN FALSE
    ELSE IF a = <<>> THEN TRUE
    ELSE IF Head(a) # Head(b) THEN Head(a) < Head(b)
    ELSE StrLess(Tail(a), Tail(b))

\* The value of key "map": None, or a dict whose absent keys read as None.
NoMap == [none |-> TRUE]
MapOf(p, s) == [none |-> FALSE, polyline |-> p, summary_polyline |-> s]
EmptyDict == MapOf(None, None)

\* (x.get("map") or {})
MapOrEmpty(m) == IF m.none THEN EmptyDict ELSE m

\* os.path.join(a, b) for a relative b
PathJoin(a, b) ==
    IF a = <<>> \/ a[Len(a)] = 47 THEN a \o b ELSE a \o <<47>> \o b

(***************************************************************************)
(* api_get (lines 98-104) applied to the HTTP response it received.        *)
(***************************************************************************)
api_get(response) ==
    IF response.status_code = 429
    THEN [raised |-> TRUE, exc |-> "RuntimeError"]
    ELSE IF response.status_code >= 400
    THEN [raised |-> TRUE, exc |-> "HTTPError"]
    ELSE [raised |-> FALSE, value |-> response.json]

(***************************************************************************)
(* bbox_from_coords (lines 62-65) and center_from_bbox (lines 67-69).      *)
(* The center's components are numerators over the denominator 2.          *)
(***************************************************************************)
MinOf(S) == CHOOSE x \in S : \A y \in S : x <= y
MaxOf(S) == CHOOSE x \in S : \A y \in S : x >= y

bbox_from_coords(coords) ==
    LET lats == {coords[k][1] : k \in 1..Len(coords)}
        lngs == {coords[k][2] : k \in 1..Len(coords)}
    IN  <<MinOf(lngs), MinOf(lats), MaxOf(lngs), MaxOf(lats)>>

center_from_bbox(b) == <<b[1] + b[3], b[2] + b[4]>>

(***************************************************************************)
(* One iteration of the for loop of main() (lines 155-220).                *)
(***************************************************************************)
\* ResolvePolyline reading summary_polyline before polyline
ResolveSummaryFirst(r, res) ==
    LET listLevel == Or(MapOrEmpty(r.map).summary_polyline, MapOrEmpty(r.map).polyline)
    IN  IF res.raised
        THEN listLevel
        ELSE LET mp == Or(MapOrEmpty(res.value.map).summary_polyline,
                          MapOrEmpty(res.value.map).polyline)
             IN  IF ~Truthy(mp) THEN listLevel ELSE mp

\* ResolvePolyline whose except branch reads summary_polyline only
ResolveExceptSummaryOnly(r, res) ==
    LET listLevel == Or(MapOrEmpty(r.map).polyline, MapOrEmpty(r.map).summary_polyline)
    IN  IF res.raised
        THEN MapOrEmpty(r.map).summary_polyline
        ELSE LET mp == Or(MapOrEmpty(res.value.map).polyline,
                          MapOrEmpty(res.value.map).summary_polyline)
             IN  IF ~Truthy(mp) THEN listLevel ELSE mp

\* lines 164-173: the polyline string of route r, given the outcome of
\* get_route_detail
ResolvePolyline(r, res) ==
    LET listLevel == Or(MapOrEmpty(r.map).polyline, MapOrEmpty(r.map).summary_polyline)
    IN  IF res.raised
        THEN listLevel
        ELSE LET mp == Or(MapOrEmpty(res.value.map).polyline,
                          MapOrEmpty(res.value.map).summary_polyline)
             IN  IF ~Truthy(mp) THEN listLevel ELSE mp

\* line 157
RouteName(r) == Or(r.name, <<82, 111, 117, 116, 101, 32>> \o Str(r.id))

\* line 202: f"strava_route_{route_id}_{slug}.geojson"
Filename(route_id, slug) ==
    <<115, 116, 114, 97, 118, 97, 95, 114, 111, 117, 116, 101, 95>>
        \o Str(route_id) \o <<95>> \o slug \o <<46, 103, 101, 111, 106, 115, 111, 110>>

\* line 203
RoutePath(dir, filename) == PathJoin(dir, filename)

\* line 216: f"routes/{filename}"
FileField(filename) == <<114, 111, 117, 116, 101, 115, 47>> \o filename

\* lines 208-220 (the distance, elevation and timestamp fields are copied
\* from r unchanged and are not part of the model)
Entry(r, coords) ==
    LET name == RouteName(r)
        slug == slugify(name)
        bbox == bbox_from_coords(coords)
    IN  [id |-> r.id, name |-> name, slug |-> slug, type |-> r.type,
         file |-> FileField(Filename(r.id, slug)),
         bbox |-> bbox, center |-> center_from_bbox(bbox)]

(***************************************************************************)
(* lines 222-223: count and sort.                                          *)
(***************************************************************************)
\* SortKey ignoring the type
SortKeyNameOnly(x) == <<<<>>, Or(x.name, <<>>)>>

\* key=lambda x: (x["type"] or "", x["name"] or "")
SortKey(x) == <<Or(x.type, <<>>), Or(x.name, <<>>)>>

\* tuple comparison k1 < k2
KeyLess(k1, k2) ==
    IF k1[1] # k2[1] THEN StrLess(k1[1], k2[1]) ELSE StrLess(k1[2], k2[2])

\* list.sort is stable: x goes before the first element with a greater key
RECURSIVE InsertSorted(_, _)
InsertSorted(sorted, x) ==
    IF sorted = <<>> THEN <<x>>
    ELSE IF KeyLess(SortKey(x), SortKey(Head(sorted)))
         THEN <<x>> \o sorted
         ELSE <<Head(sorted)>> \o InsertSorted(Tail(sorted), x)

RECURSIVE SortRoutes(_)
SortRoutes(entries) ==
    IF entries = <<>> THEN <<>>
    ELSE InsertSorted(SortRoutes(SubSeq(entries, 1, Len(entries) - 1)),
                      entries[Len(entries)])

(***************************************************************************)
(* Inputs of a run.                                                        *)
(***************************************************************************)
MaxRoutes == 3

TypeRide == <<114, 105, 100, 101>>      \* "ride"
TypeRun  == <<114, 117, 110>>           \* "run"

\* "_p~iF~ps|U_ulLnnqC_mqNvxq`@": (38.5, -120.2), (40.7, -120.95), (43.252, -126.453)
PolyDetail ==
    <<95, 112, 126, 105, 70, 126, 112, 115, 124, 85, 95, 117, 108, 76, 110, 110, 113, 67,
      95, 109, 113, 78, 118, 120, 113, 96, 64>>
PolyDetailSummary == <<95, 112, 126, 105, 70, 126, 112, 115, 124, 85>>   \* "_p~iF~ps|U"
PolyList          == <<65, 65, 64, 64>>                                  \* "AA@@"
PolyListSummary   == <<65, 64>>                                          \* "A@"
PolyTruncated     == <<95, 112, 126, 105, 70>>     \* "_p~iF": a latitude without its longitude

\* Records of the route listing; identifiers are unique within a listing.
RouteRecords ==
    { [id |-> 11, name |-> <<66>>, type |-> TypeRun,  map |-> MapOf(None, PolyListSummary)],
      [id |-> 12, name |-> <<65>>, type |-> TypeRide, map |-> MapOf(PolyList, PolyListSummary)],
      [id |-> 13, name |-> <<90>>, type |-> TypeRide, map |-> NoMap],
      [id |-> 14, name |-> None,   type |-> None,     map |-> MapOf(<<>>, PolyTruncated)] }

RouteLists ==
    UNION { { l \in [1..n -> RouteRecords] :
                \A a, b \in 1..n : a # b => l[a].id # l[b].id } : n \in 0..MaxRoutes }

\* Responses of GET /routes/{id}
DetailResponses ==
    { [status_code |-> 200, json |-> [map |-> MapOf(PolyDetail, PolyDetailSummary)]],
      [status_code |-> 200, json |-> [map |-> MapOf(None, PolyDetailSummary)]],
      [status_code |-> 200, json |-> [map |-> MapOf(<<>>, <<>>)]],
      [status_code |-> 200, json |-> [map |-> NoMap]],
      [status_code |-> 429],
      [status_code |-> 500] }

\* Responses of GET /athlete
AthleteResponses ==
    { [status_code |-> 200, json |-> [id |-> 1001]],
      [status_code |-> 429],
      [status_code |-> 401] }

\* Responses of GET /athletes/{id}/routes.  Every listing is shorter than
\* per_page, so list_athlete_routes (lines 111-120) returns the first page.
ListResponses ==
    { [status_code |-> 200, json |-> l] : l \in RouteLists }
        \cup { [status_code |-> 429], [status_code |-> 500] }

RoutesDirs == { <<114, 111, 117, 116, 101, 115>>,      \* "routes" (the default)
                <<111, 117, 116>> }                    \* "out"

Pending == [done |-> FALSE]
NoCur   == [active |-> FALSE]

(***************************************************************************)
(* main() (lines 138-228).                                                 *)
(***************************************************************************)
Init ==
    /\ call = [fn |-> "main"]
    /\ ret = Pending
    /\ pc = "ensure_dir"
    /\ ROUTES_DIR \in RoutesDirs
    /\ routes = <<>>
    /\ pos = 0
    /\ index = [athlete_id |-> 0, count |-> 0, routes |-> <<>>]
    /\ files = <<>>
    /\ manifest = <<>>
    /\ out = <<>>
    /\ athlete_id = 0
    /\ cur = NoCur
    /\ error = "none"

\* an exception leaves main()
Abort(exc) ==
    /\ pc' = "aborted"
    /\ error' = exc

\* line 139
EnsureDir ==
    /\ pc = "ensure_dir"
    /\ \E ok \in BOOLEAN :
          IF ok THEN pc' = "get_access_token" /\ error' = error
                ELSE Abort("OSError")
    /\ UNCHANGED <<call, ret, ROUTES_DIR, routes, pos, index, files, manifest, out,
                   athlete_id, cur>>

\* line 140; get_access_token (lines 82-96) raises KeyError on a missing
\* environment variable and HTTPError on a refused token request
GetAccessToken ==
    /\ pc = "get_access_token"
    /\ \E res \in {"token", "KeyError", "HTTPError"} :
          IF res = "token" THEN pc' = "get_athlete" /\ error' = error
                           ELSE Abort(res)
    /\ UNCHANGED <<call, ret, ROUTES_DIR, routes, pos, index, files, manifest, out,
                   athlete_id, cur>>

\* lines 142-143
GetAthlete ==
    /\ pc = "get_athlete"
    /\ \E response \in AthleteResponses :
          LET res == api_get(response)
          IN  IF res.raised
              THEN Abort(res.exc) /\ athlete_id' = athlete_id
              ELSE pc' = "list_routes" /\ error' = error /\ athlete_id' = res.value.id
    /\ UNCHANGED <<call, ret, ROUTES_DIR, routes, pos, index, files, manifest, out, cur>>

\* lines 145-153
ListAthleteRoutes ==
    /\ pc = "list_routes"
    /\ \E response \in ListResponses :
          LET res == api_get(response)
          IN  IF res.raised
              THEN Abort(res.exc) /\ UNCHANGED <<routes, out, index>>
              ELSE /\ routes' = res.value
                   /\ out' = Append(out, <<"found", Len(res.value)>>)
                   /\ index' = [athlete_id |-> athlete_id, count |-> 0, routes |-> <<>>]
                   /\ pc' = "loop"
                   /\ error' = error
    /\ UNCHANGED <<call, ret, ROUTES_DIR, pos, files, manifest, athlete_id, cur>>

\* SkipRoute with `break` in place of `continue`
SkipRouteBreak(r, printed, kind) ==
    /\ out' = Append(printed, <<kind, r.id>>)
    /\ pos' = Len(routes)
    /\ UNCHANGED <<pc, error, index, files>>

\* lines 175-177 and 180-182: print the diagnostic and `continue`
SkipRoute(r, printed, kind) ==
    /\ out' = Append(printed, <<kind, r.id>>)
    /\ pos' = pos + 1
    /\ UNCHANGED <<pc, error, index, files>>

\* an exception raised inside the loop body is not caught (lines 179-220
\* are outside the try statement)
RaiseInLoop(printed, exc) ==
    /\ Abort(exc)
    /\ out' = printed
    /\ UNCHANGED <<pos, index, files>>

\* lines 184-220: write the route file and append the manifest entry
WriteRoute(r, coords, printed) ==
    LET e == Entry(r, coords)
    IN  /\ files' = Append(files, RoutePath(ROUTES_DIR, Filename(r.id, e.slug)))
        /\ index' = [index EXCEPT !.routes = Append(@, e)]
        /\ out' = printed
        /\ pos' = pos + 1
        /\ UNCHANGED <<pc, error>>

\* lines 155-220: the body of the loop for the next route, with the
\* response of the detail request and whether the route file can be written
ProcessRoute ==
    /\ pc = "loop"
    /\ pos < Len(routes)
    /\ \E response \in DetailResponses, writable \in BOOLEAN :
          LET r       == routes[pos + 1]
              res     == api_get(response)
              mp      == ResolvePolyline(r, res)
              printed == IF res.raised THEN Append(out, <<"warning", r.id>>) ELSE out
          IN  /\ cur' = [active |-> TRUE, r |-> r, res |-> res, mp |-> mp, pos |-> pos]
              /\ IF ~Truthy(mp)
                 THEN SkipRoute(r, printed, "skip_no_polyline")
                 ELSE LET dec == decode_polyline(mp)
                      IN  IF dec.raised THEN RaiseInLoop(printed, dec.exc)
                          ELSE IF dec.coords = <<>>
                          THEN SkipRoute(r, printed, "skip_empty_coords")
                          ELSE IF ~writable THEN RaiseInLoop(printed, "OSError")
                          ELSE WriteRoute(r, dec.coords, printed)
    /\ UNCHANGED <<call, ret, ROUTES_DIR, routes, manifest, athlete_id>>

\* WriteManifest indented into the loop: the manifest is written after
\* every route
WriteManifestInLoop ==
    /\ pc = "loop"
    /\ pos >= 1
    /\ Len(manifest) < pos
    /\ LET final == [index EXCEPT !.count = Len(index.routes),
                                  !.routes = SortRoutes(index.routes)]
       IN  /\ index' = final
           /\ \E writable \in BOOLEAN :
                 IF writable
                 THEN /\ manifest' = Append(manifest, final)
                      /\ out' = Append(out, <<"wrote", final.count>>)
                      /\ pc' = IF pos = Len(routes) THEN "done" ELSE "loop"
                      /\ error' = error
                 ELSE /\ Abort("OSError")
                      /\ UNCHANGED <<manifest, out>>
    /\ UNCHANGED <<call, ret, ROUTES_DIR, routes, pos, files, athlete_id, cur>>

\* lines 222-228
WriteManifest ==
    /\ pc = "loop"
    /\ pos = Len(routes)
    /\ LET final == [index EXCEPT !.count = Len(index.routes),
                                  !.routes = SortRoutes(index.routes)]
       IN  /\ index' = final
           /\ \E writable \in BOOLEAN :
                 IF writable
                 THEN /\ manifest' = Append(manifest, final)
                      /\ out' = Append(out, <<"wrote", final.count>>)
                      /\ pc' = "done"
                      /\ error' = error
                 ELSE /\ Abort("OSError")
                      /\ UNCHANGED <<manifest, out>>
    /\ UNCHANGED <<call, ret, ROUTES_DIR, routes, pos, files, athlete_id, cur>>

Next ==
    \/ EnsureDir
    \/ GetAccessToken
    \/ GetAthlete
    \/ ListAthleteRoutes
    \/ ProcessRoute
    \/ WriteManifest

Spec == Init /\ [][Next]_vars

(***************************************************************************)
(* decode_polyline and slugify called on their own.                        *)
(***************************************************************************)
MaxPolyLen == 4
MaxPathLen == 2
MaxNameLen == 3

\* '-' (below the offset), '?', '@', 'A' end a value; '_', '`', '~' carry
\* the continuation flag
PolyAlphabet == {45, 63, 64, 65, 95, 96, 126}

\* 'A', e-acute, ' ', '-', apostrophe, '!', '_'
NameAlphabet == {65, 233, 32, 45, 39, 33, 95}

StringsOver(alphabet, maxLen) == UNION { [1..n -> alphabet] : n \in 0..maxLen }

\* latitudes and longitudes in units of 1e-5 degrees
CoordValues == {-12020000, -17, -1, 0, 16, 3850000}
Paths == StringsOver(CoordValues \X CoordValues, MaxPathLen)

\* The encoder matching decode_polyline: signed deltas, zig-zag sign in the
\* low bit, 5-bit chunks least-significant first, continuation flag 0x20,
\* offset 63.
ZigZag(v) == IF v < 0 THEN Invert(ShiftLeft(v, 1)) ELSE ShiftLeft(v, 1)

RECURSIVE EncodeValue(_)
EncodeValue(u) ==
    IF u >= 32 THEN <<(32 + (u % 32)) + 63>> \o EncodeValue(u \div 32)
               ELSE <<u + 63>>

RECURSIVE EncodeFrom(_, _, _)
EncodeFrom(path, lat, lng) ==
    IF path = <<>> THEN <<>>
    ELSE EncodeValue(ZigZag(Head(path)[1] - lat))
            \o EncodeValue(ZigZag(Head(path)[2] - lng))
            \o EncodeFrom(Tail(path), Head(path)[1], Head(path)[2])

encode_polyline(path) == EncodeFrom(path, 0, 0)

\* "Cafe de l'Ete!" with the three accents
CafeName == <<67, 97, 102, 233, 32, 100, 101, 32, 108, 39, 201, 116, 233, 33>>

\* a name longer than 60 characters: "ab " 21 times
LongName == [k \in 1..63 |-> <<97, 98, 32>>[((k - 1) % 3) + 1]]

SlugInputs == StringsOver(NameAlphabet, MaxNameLen) \cup {CafeName, LongName}

InitIdle ==
    /\ ret = Pending
    /\ pc = "call"
    /\ ROUTES_DIR = <<>>
    /\ routes = <<>>
    /\ pos = 0
    /\ index = [athlete_id |-> 0, count |-> 0, routes |-> <<>>]
    /\ files = <<>>
    /\ manifest = <<>>
    /\ out = <<>>
    /\ athlete_id = 0
    /\ cur = NoCur
    /\ error = "none"

InitDecode ==
    /\ call \in { [fn |-> "decode_polyline", polyline_str |-> s, encoded |-> FALSE, path |-> <<>>] :
                    s \in StringsOver(PolyAlphabet, MaxPolyLen) }
           \cup { [fn |-> "decode_polyline", polyline_str |-> encode_polyline(p),
                   encoded |-> TRUE, path |-> p] : p \in Paths }
    /\ InitIdle

CallDecodePolyline ==
    /\ pc = "call"
    /\ call.fn = "decode_polyline"
    /\ ret' = [done |-> TRUE, res |-> decode_polyline(call.polyline_str)]
    /\ pc' = "return"
    /\ UNCHANGED <<call, ROUTES_DIR, routes, pos, index, files, manifest, out,
                   athlete_id, cur, error>>

SpecDecode == InitDecode /\ [][CallDecodePolyline]_vars

InitSlug ==
    /\ call \in { [fn |-> "slugify", value |-> v] : v \in SlugInputs }
    /\ InitIdle

CallSlugify ==
    /\ pc = "call"
    /\ call.fn = "slugify"
    /\ ret' = [done |-> TRUE, res |-> slugify(call.value)]
    /\ pc' = "return"
    /\ UNCHANGED <<call, ROUTES_DIR, routes, pos, index, files, manifest, out,
                   athlete_id, cur, error>>

SpecSlug == InitSlug /\ [][CallSlugify]_vars

(***************************************************************************)
(* Properties.                                                             *)
(***************************************************************************)
\* A string on which the decoder's cursor overruns: it ends on a character
\* with the continuation flag, or it holds an odd number of values (a
\* latitude without its longitude).
HasContinuation(c) == c - 63 >= 32
Overruns(s) ==
    /\ s # <<>>
    /\ \/ HasContinuation(s[Len(s)])
       \/ Cardinality({k \in 1..Len(s) : ~HasContinuation(s[k])}) % 2 = 1

NonEmpty(v) == v # None /\ v # <<>>
FieldOf(m, key) == IF m.none THEN None ELSE m[key]

SkipKinds == {"skip_no_polyline", "skip_empty_coords", "skip_decode_error"}
SkippedId(id) == \E k \in DOMAIN out : out[k][1] \in SkipKinds /\ out[k][2] = id
WarnedId(id)  == \E k \in DOMAIN out : out[k] = <<"warning", id>>
WrittenId(id) == \E k \in DOMAIN index.routes : index.routes[k].id = id
IdsOf(l) == [k \in DOMAIN l |-> l[k].id]

\* C1: a route whose resolved polyline is malformed is skipped with a
\* diagnostic and the run continues with the next route.
C1_MalformedRouteSkipped ==
    (cur.active /\ NonEmpty(cur.mp) /\ Overruns(cur.mp))
        => (error # "IndexError" /\ pos > cur.pos /\ SkippedId(cur.r.id))

\* C2: on every string on which the cursor overruns, decode_polyline raises
\* and returns no path.
C2_TruncatedRaises ==
    (ret.done /\ call.fn = "decode_polyline" /\ Overruns(call.polyline_str))
        => (ret.res.raised /\ "coords" \notin DOMAIN ret.res)

C2_Witness ==
    /\ ret.done /\ call.fn = "decode_polyline" /\ ~call.encoded
    /\ Len(call.polyline_str) = 3
    /\ ~HasContinuation(call.polyline_str[3])
    /\ ret.res.raised

\* C3: an iteration for a route with no non-empty polyline in the detail
\* record or the list record changes neither the manifest entries nor the
\* files, raises nothing, and the loop moves on to the next route.
NoPolylineAnywhere(r, res) ==
    /\ ~NonEmpty(FieldOf(r.map, "polyline"))
    /\ ~NonEmpty(FieldOf(r.map, "summary_polyline"))
    /\ res.raised \/ ( /\ ~NonEmpty(FieldOf(res.value.map, "polyline"))
                       /\ ~NonEmpty(FieldOf(res.value.map, "summary_polyline")) )

C3_NoPolylineSkips ==
    [][ (pc = "loop" /\ pos < Len(routes) /\ cur'.active
            /\ NoPolylineAnywhere(cur'.r, cur'.res))
        => ( /\ index' = index
             /\ files' = files
             /\ manifest' = manifest
             /\ error' = "none"
             /\ pc' = "loop"
             /\ pos' = pos + 1 ) ]_vars

\* the first route had no polyline, a later route was written and the
\* manifest holds only the later routes
C3_Witness ==
    /\ pc = "done"
    /\ Len(routes) >= 2
    /\ routes[1].id = 13
    /\ out[2] = <<"skip_no_polyline", 13>>
    /\ ~WrittenId(13)
    /\ Len(files) = Len(routes) - 1
    /\ Len(manifest[1].routes) = Len(routes) - 1

\* C4: when the detail fetch succeeds the resolved polyline is the first
\* non-empty of detail polyline, detail summary_polyline, list polyline,
\* list summary_polyline.
Candidates(r, res) ==
    << FieldOf(res.value.map, "polyline"), FieldOf(res.value.map, "summary_polyline"),
       FieldOf(r.map, "polyline"), FieldOf(r.map, "summary_polyline") >>

C4_FirstNonEmpty ==
    (cur.active /\ ~cur.res.raised)
        => LET c == Candidates(cur.r, cur.res)
           IN  \A k \in 1..4 :
                  (NonEmpty(c[k]) /\ \A j \in 1..(k - 1) : ~NonEmpty(c[j]))
                      => cur.mp = c[k]

\* both detail fields empty, both list fields present: the list polyline wins
C4_Witness ==
    /\ cur.active /\ ~cur.res.raised
    /\ cur.r.id = 12
    /\ ~NonEmpty(FieldOf(cur.res.value.map, "polyline"))
    /\ ~NonEmpty(FieldOf(cur.res.value.map, "summary_polyline"))
    /\ cur.mp = PolyList
    /\ WrittenId(12)

\* C5: when the detail fetch raises, a warning is printed, the exception
\* does not leave main(), and the route is processed with the list record's
\* polyline, else its summary_polyline.
ListLevel(r) ==
    IF NonEmpty(FieldOf(r.map, "polyline"))
    THEN FieldOf(r.map, "polyline")
    ELSE FieldOf(r.map, "summary_polyline")

C5_DetailFailureFallsBack ==
    (cur.active /\ cur.res.raised)
        => LET l == ListLevel(cur.r)
           IN  /\ WarnedId(cur.r.id)
               /\ error \notin {"RuntimeError", "HTTPError"}
               /\ NonEmpty(l) => cur.mp = l
               /\ ~NonEmpty(l) => (~NonEmpty(cur.mp) /\ SkippedId(cur.r.id) /\ pos > cur.pos)
               /\ (NonEmpty(l) /\ ~Overruns(l) /\ pos > cur.pos)
                     => \E k \in DOMAIN index.routes :
                           /\ index.routes[k].id = cur.r.id
                           /\ index.routes[k].bbox =
                                 bbox_from_coords(decode_polyline(l).coords)

\* the detail request was rate limited and the route was still written
\* from the list record's polyline
C5_Witness ==
    /\ cur.active /\ cur.res.raised /\ cur.res.exc = "RuntimeError"
    /\ cur.r.id = 12
    /\ cur.mp = PolyList
    /\ WrittenId(12)
    /\ pc = "done"

\* C6: every manifest entry's file field is the path of a route file
\* written by the run.
C6_FileFieldIsWrittenPath ==
    pc = "done"
        => \A k \in DOMAIN manifest[1].routes :
              \E f \in DOMAIN files : files[f] = manifest[1].routes[k].file

\* C7: the manifest is written at most once, only when every fetched route
\* has been written or skipped; no route file is written after it; an
\* aborted run has written no manifest.
C7_ManifestLast ==
    /\ [](/\ Len(manifest) <= 1
          /\ manifest # <<>>
                => /\ pc = "done"
                   /\ pos = Len(routes)
                   /\ \A k \in DOMAIN routes :
                         WrittenId(routes[k].id) \/ SkippedId(routes[k].id)
          /\ pc = "aborted" => manifest = <<>>)
    /\ [][manifest # <<>> => (files' = files /\ manifest' = manifest)]_vars

C7_Witness ==
    /\ pc = "done"
    /\ Len(manifest) = 1
    /\ Len(routes) = 3
    /\ Len(files) = 2
    /\ \E k \in DOMAIN routes : SkippedId(routes[k].id)

\* C8: the routes of the written manifest are in ascending lexicographic
\* order of (type, name), a missing type or name counting as the empty
\* string, and they are the entries of the routes written; routes fetched
\* as run/B, ride/A, ride/Z are ordered ride/A, ride/Z, run/B.
SeqLeq(a, b) ==
    \E n \in 0..Len(a) :
        /\ n <= Len(b)
        /\ \A k \in 1..n : a[k] = b[k]
        /\ n = Len(a) \/ (n < Len(b) /\ a[n + 1] < b[n + 1])

PairOf(e) == << IF e.type = None THEN <<>> ELSE e.type,
                IF e.name = None THEN <<>> ELSE e.name >>

PairLeq(p, q) == IF p[1] = q[1] THEN SeqLeq(p[2], q[2]) ELSE SeqLeq(p[1], q[1])

C8_ManifestSorted ==
    pc = "done"
        => LET m == manifest[1].routes
           IN  /\ \A a, b \in DOMAIN m : a < b => PairLeq(PairOf(m[a]), PairOf(m[b]))
               /\ Len(m) = Len(files)
               /\ manifest[1].count = Len(m)
               /\ \A k \in DOMAIN routes :
                     SkippedId(routes[k].id) \/ \E a \in DOMAIN m : m[a].id = routes[k].id
               /\ (IdsOf(routes) = <<11, 12, 13>> /\ Len(m) = 3) => IdsOf(m) = <<12, 13, 11>>

C8_Witness ==
    /\ pc = "done"
    /\ IdsOf(routes) = <<11, 12, 13>>
    /\ IdsOf(manifest[1].routes) = <<12, 13, 11>>

\* C9: decoding the encoding of a path of 5-decimal coordinates returns
\* that path.
C9_RoundTrip ==
    (ret.done /\ call.fn = "decode_polyline" /\ call.encoded)
        => ret.res = [raised |-> FALSE, coords |-> call.path]

C9_Witness ==
    /\ ret.done /\ call.fn = "decode_polyline" /\ call.encoded
    /\ call.path = << <<3850000, -12020000>>, <<-17, 16>> >>
    /\ ret.res.coords = call.path

\* C10 (as amended): punctuation is removed without a replacement, so the
\* letters on either side of it join: slugify of "Cafe de l'Ete!" (with its
\* accents) is "cafe-de-lete".
C10_CafeSlug ==
    (ret.done /\ call.fn = "slugify" /\ call.value = CafeName)
        => ret.res = <<99, 97, 102, 101, 45, 100, 101, 45, 108, 101, 116, 101>>

C10_Witness ==
    /\ ret.done /\ call.fn = "slugify" /\ call.value = CafeName
    /\ Len(ret.res) = 12

\* C10 as stated: slugify of "Cafe de l'Ete!" is "cafe-de-l-ete".
C10_CafeSlugHyphenated ==
    (ret.done /\ call.fn = "slugify" /\ call.value = CafeName)
        => ret.res = <<99, 97, 102, 101, 45, 100, 101, 45, 108, 45, 101, 116, 101>>

====
